---- MODULE Spec2Model ----
(***************************************************************************)
(* Model of the post repository reader (lib/posts: getAllPosts,            *)
(* getPostBySlug) and of the two pages that consume it (Home, BlogPost).   *)
(*                                                                         *)
(* JavaScript strings are sequences of one-character strings, so that the  *)
(* regular expression /\.md$/, the template `${slug}.md` and the `<` of    *)
(* the sort comparator are computed on characters.  A file's contents are  *)
(* a sequence of lines; matter() splits them at the front matter           *)
(* delimiters.                                                             *)
(***************************************************************************)
EXTENDS Integers, Sequences, FiniteSets, TLC

\* dirExists, files: the posts directory and its entries (the backing store)
\* op, ret, page: the last operation, the value lib/posts returned to it and
\*                what the page rendered
\* prev: the value returned by the call before the last one, when that call
\*       was the same call on the same, unedited store
\* stale: after an edit, the call that came right before the edit and the
\*        value it returned
\* changed: the last call repeated the call made right before the latest
\*          edit and returned a different value
\* calls: the invocations of lib/posts in flight, one per concurrent caller,
\*        each with its own position and local constants
VARIABLES dirExists, files, op, ret, page, prev, stale, changed, calls

vars == <<dirExists, files, op, ret, page, prev, stale, changed, calls>>

(* ---------------------------------------------------------------- bounds *)

\* largest number of entries the posts directory holds
MaxFiles == 3

\* largest number of entries the directory holds while callers run
\* concurrently
MaxSharedFiles == 2

(* ------------------------------------------------------ JavaScript values *)

Undefined == [t |-> "undefined"]

Str(s) == [t |-> "string", v |-> s]

Null == [kind |-> "null"]

Threw(e) == [kind |-> "throw", error |-> e]

\* UTF-16 code units of the characters that occur in date strings
Code(c) ==
    CASE c = "-" -> 45
      [] c = "0" -> 48
      [] c = "1" -> 49
      [] c = "2" -> 50
      [] c = "3" -> 51
      [] c = "4" -> 52
      [] c = "5" -> 53
      [] c = "9" -> 57

\* s < t for two strings: comparison of code units, a proper prefix is smaller
RECURSIVE StrLess(_, _)
StrLess(s, t) ==
    IF t = <<>> THEN FALSE
    ELSE IF s = <<>> THEN TRUE
    ELSE IF Code(Head(s)) # Code(Head(t)) THEN Code(Head(s)) < Code(Head(t))
    ELSE StrLess(Tail(s), Tail(t))

\* x < y of JavaScript: two strings compare as strings; undefined converts
\* to NaN and every comparison with NaN is false
JsLess(x, y) ==
    IF x.t = "string" /\ y.t = "string" THEN StrLess(x.v, y.v) ELSE FALSE

(* ------------------------------------------------------------ file names *)

MdExt == <<".", "m", "d">>

EndsWithMd(name) ==
    /\ Len(name) >= 3
    /\ SubSeq(name, Len(name) - 2, Len(name)) = MdExt

\* mutant of StripMd: the pattern /md$/ leaves the dot in the slug
StripMdKeepsDot(fileName) ==
    IF EndsWithMd(fileName) THEN SubSeq(fileName, 1, Len(fileName) - 2)
    ELSE fileName

\* fileName.replace(/\.md$/, '')
StripMd(fileName) ==
    IF EndsWithMd(fileName) THEN SubSeq(fileName, 1, Len(fileName) - 3)
    ELSE fileName

\* `${slug}.md`
WithMd(slug) == slug \o MdExt

(* --------------------------------------------------------- file contents *)

\* the lines a content file is made of
Delim == [kind |-> "delim"]

KV(k, v) == [kind |-> "kv", key |-> k, val |-> v]

Text(s) == [kind |-> "text", text |-> s]

Blank == [kind |-> "blank"]

\* a line that is not valid YAML
Bad == [kind |-> "bad"]

File(lines) == [kind |-> "file", lines |-> lines]

Dir == [kind |-> "dir"]

(* ----------------------------------------------------------- gray-matter *)

\* the YAML loader rejects the block: a line that is no mapping entry, or a
\* key that occurs twice
YamlThrows(block) ==
    \/ \E i \in 1..Len(block) : block[i].kind \in {"bad", "text"}
    \/ \E i, j \in 1..Len(block) :
          /\ i # j
          /\ block[i].kind = "kv"
          /\ block[j].kind = "kv"
          /\ block[i].key = block[j].key

\* the mapping the YAML loader returns for a block it accepts
YamlLoad(block) ==
    LET idx == {i \in 1..Len(block) : block[i].kind = "kv"}
        keys == {block[i].key : i \in idx}
    IN  [k \in keys |-> block[CHOOSE i \in idx : block[i].key = k].val]

\* index of the first closing delimiter in rest, Len(rest) + 1 if none
RECURSIVE CloseIndex(_, _)
CloseIndex(rest, i) ==
    IF i > Len(rest) THEN i
    ELSE IF rest[i].kind = "delim" THEN i
    ELSE CloseIndex(rest, i + 1)

\* mutant of Matter: the content starts at the closing delimiter instead of
\* after it
MatterKeepsDelimiter(lines) ==
    IF lines = <<>> \/ Head(lines).kind # "delim"
    THEN [threw |-> FALSE, data |-> <<>>, content |-> lines]
    ELSE LET rest == Tail(lines)
             close == CloseIndex(rest, 1)
             block == SubSeq(rest, 1, close - 1)
         IN  IF YamlThrows(block)
             THEN [threw |-> TRUE, data |-> <<>>, content |-> <<>>]
             ELSE [threw |-> FALSE,
                   data |-> YamlLoad(block),
                   content |-> SubSeq(rest, close, Len(rest))]

\* matter(fileContents): front matter between the opening delimiter and the
\* first closing one becomes data, what follows the closing one is content;
\* a file that does not open with the delimiter is all content
Matter(lines) ==
    IF lines = <<>> \/ Head(lines).kind # "delim"
    THEN [threw |-> FALSE, data |-> <<>>, content |-> lines]
    ELSE LET rest == Tail(lines)
             close == CloseIndex(rest, 1)
             block == SubSeq(rest, 1, close - 1)
         IN  IF YamlThrows(block)
             THEN [threw |-> TRUE, data |-> <<>>, content |-> <<>>]
             ELSE [threw |-> FALSE,
                   data |-> YamlLoad(block),
                   content |-> SubSeq(rest, close + 1, Len(rest))]

\* data.key: the value, undefined when the front matter has no such key
Field(data, key) ==
    IF key \in DOMAIN data THEN Str(data[key]) ELSE Undefined

(* ----------------------------------------------------------------- posts *)

\* the object literal both functions return for one parsed file
MakePost(slug, m) ==
    [slug |-> slug,
     content |-> m.content,
     title |-> Field(m.data, "title"),
     date |-> Field(m.data, "date"),
     excerpt |-> Field(m.data, "excerpt")]

\* fs.readFileSync followed by matter() and the object literal: a post, or
\* the exception that readFileSync (a directory) or matter (bad YAML) throws
ReadPost(slug, entry) ==
    IF entry.kind = "dir" THEN Threw("EISDIR")
    ELSE LET m == Matter(entry.lines)
         IN  IF m.threw THEN Threw("YAMLException")
             ELSE [kind |-> "post", post |-> MakePost(slug, m)]

(* ------------------------------------------------------------------ sort *)

\* (a, b) => (a.date < b.date ? 1 : -1)
Compare(a, b) == IF JsLess(a.date, b.date) THEN 1 ELSE -1

\* Array.prototype.sort on a short array (fewer than 64 elements): the leading run is found
\* (and reversed when descending), the rest is inserted by binary search
RECURSIVE CountRun(_, _, _)
CountRun(a, idx, desc) ==
    IF idx > Len(a) THEN Len(a)
    ELSE LET order == Compare(a[idx], a[idx - 1])
         IN  IF (desc /\ order >= 0) \/ (~desc /\ order < 0) THEN idx - 1
             ELSE CountRun(a, idx + 1, desc)

ReverseRange(a, n) ==
    [i \in 1..Len(a) |-> IF i <= n THEN a[n + 1 - i] ELSE a[i]]

RECURSIVE BinarySearch(_, _, _, _)
BinarySearch(a, pivot, left, right) ==
    IF left >= right THEN left
    ELSE LET mid == left + ((right - left) \div 2)
         IN  IF Compare(pivot, a[mid]) < 0
             THEN BinarySearch(a, pivot, left, mid)
             ELSE BinarySearch(a, pivot, mid + 1, right)

RECURSIVE BinaryInsertionSort(_, _)
BinaryInsertionSort(a, start) ==
    IF start > Len(a) THEN a
    ELSE LET pivot == a[start]
             pos == BinarySearch(a, pivot, 1, start)
             moved == [i \in 1..Len(a) |->
                          IF i < pos THEN a[i]
                          ELSE IF i = pos THEN pivot
                          ELSE IF i <= start THEN a[i - 1]
                          ELSE a[i]]
         IN  BinaryInsertionSort(moved, start + 1)

\* allPostsData.sort(compare)
ArraySort(a) ==
    IF Len(a) < 2 THEN a
    ELSE LET desc == Compare(a[2], a[1]) < 0
             run == CountRun(a, 3, desc)
             made == IF desc THEN ReverseRange(a, run) ELSE a
         IN  BinaryInsertionSort(made, run + 1)

(* ------------------------------------------------------ the backing store *)

\* names an entry of the posts directory can have
FileNames ==
    { <<"h", "e", "l", "l", "o", ".", "m", "d">>,
      <<"a", ".", "m", "d">>,
      <<"a">> }

Hello == <<"H", "e", "l", "l", "o">>

Hi == <<"H", "i">>

World == <<"W", "o", "r", "l", "d">>

Date1 == <<"2", "0", "2", "4", "-", "0", "1", "-", "0", "1">>

Date2 == <<"2", "0", "2", "4", "-", "0", "3", "-", "0", "1">>

Date3 == <<"2", "0", "2", "3", "-", "1", "2", "-", "3", "1">>

Date5 == <<"2", "0", "2", "4", "-", "0", "5", "-", "0", "1">>

Dates == {Date1, Date2, Date3, Date5}

\* title, date, excerpt and a body
FullDoc(d) ==
    <<Delim, KV("title", Hello), KV("date", d), KV("excerpt", Hi), Delim,
      Text(World)>>

\* title and date only
NoExcerptDoc(d) ==
    <<Delim, KV("title", Hello), KV("date", d), Delim, Text(World)>>

\* title and excerpt, no date, as
\* posts/production-ready-rag-kubernetes-elasticsearch.md
NoDateDoc == <<Delim, KV("title", Hello), Blank, KV("excerpt", Hi), Delim, Text(World)>>

\* a file without front matter
PlainDoc == <<Text(World)>>

\* front matter that is not valid YAML
BadDoc == <<Delim, KV("title", Hello), Bad, Delim, Text(World)>>

\* contents an editor can give a file
FileContents ==
    {FullDoc(Date1), FullDoc(Date2), FullDoc(Date5), NoExcerptDoc(Date3),
     NoDateDoc, PlainDoc, BadDoc}

\* slugs a detail page can be asked for
Slugs == {StripMd(n) : n \in FileNames} \cup { <<"x">> }

\* the orders in which readdirSync can enumerate the entries S
Orders(S) ==
    {o \in [1..Cardinality(S) -> S] :
        \A i, j \in 1..Cardinality(S) : i # j => o[i] # o[j]}

None == [kind |-> "none"]

(* ------------------------------------------------------------ lib/posts *)

\* mutant of getAllPosts: no existsSync guard, readdirSync throws on a
\* missing directory
getAllPostsUnguarded(fileNames) ==
    IF ~dirExists THEN Threw("ENOENT")
    ELSE LET allPostsData ==
                 [i \in 1..Len(fileNames) |->
                     ReadPost(StripMd(fileNames[i]), files[fileNames[i]])]
             failed == {i \in 1..Len(fileNames) : allPostsData[i].kind = "throw"}
         IN  IF failed # {}
             THEN allPostsData[CHOOSE i \in failed : \A j \in failed : i <= j]
             ELSE [kind |-> "posts",
                   posts |-> ArraySort([i \in 1..Len(fileNames) |->
                                           allPostsData[i].post])]

\* getAllPosts(), the directory enumerated in the order fileNames
getAllPosts(fileNames) ==
    IF ~dirExists THEN [kind |-> "posts", posts |-> <<>>]
    ELSE LET allPostsData ==
                 [i \in 1..Len(fileNames) |->
                     ReadPost(StripMd(fileNames[i]), files[fileNames[i]])]
             failed == {i \in 1..Len(fileNames) : allPostsData[i].kind = "throw"}
         IN  IF failed # {}
             THEN allPostsData[CHOOSE i \in failed : \A j \in failed : i <= j]
             ELSE [kind |-> "posts",
                   posts |-> ArraySort([i \in 1..Len(fileNames) |->
                                           allPostsData[i].post])]

\* mutant of getPostBySlug: the file is read through a descriptor kept open
\* between calls, so a repeated call reads from the end of the file
getPostBySlugDrained(slug) ==
    IF ~(dirExists /\ WithMd(slug) \in DOMAIN files) THEN Null
    ELSE IF op = [name |-> "BlogPost", slug |-> slug]
         THEN ReadPost(slug, File(<<>>))
         ELSE ReadPost(slug, files[WithMd(slug)])

\* mutant of getPostBySlug: a module-level memo keyed by slug answers the
\* call with the value loaded before the store was edited
getPostBySlugMemo(slug) ==
    IF stale # None /\ stale.op = [name |-> "BlogPost", slug |-> slug]
    THEN stale.ret
    ELSE IF ~(dirExists /\ WithMd(slug) \in DOMAIN files) THEN Null
    ELSE ReadPost(slug, files[WithMd(slug)])

\* getPostBySlug(slug)
getPostBySlug(slug) ==
    IF ~(dirExists /\ WithMd(slug) \in DOMAIN files) THEN Null
    ELSE ReadPost(slug, files[WithMd(slug)])

(* ----------------------------------------------------------------- pages *)

BlogPrefix == <<"/", "b", "l", "o", "g", "/">>

\* what Home renders from the value getAllPosts returned
HomePage(r) ==
    IF r.kind = "throw" THEN [kind |-> "error"]
    ELSE [kind |-> "home",
          links |-> [i \in 1..Len(r.posts) |->
                        [key |-> r.posts[i].slug,
                         href |-> BlogPrefix \o r.posts[i].slug,
                         title |-> r.posts[i].title,
                         excerpt |-> r.posts[i].excerpt,
                         date |-> r.posts[i].date]],
          noPosts |-> Len(r.posts) = 0]

\* mutant of BlogPostPage: the guard tests post.title instead of post
BlogPostPageTitleGuard(r) ==
    IF r.kind = "throw" THEN [kind |-> "error"]
    ELSE IF r.kind = "null" \/ r.post.title = Undefined
         THEN [kind |-> "notFound"]
    ELSE [kind |-> "article",
          title |-> r.post.title,
          date |-> r.post.date,
          body |-> r.post.content]

\* what BlogPost renders from the value getPostBySlug returned
BlogPostPage(r) ==
    IF r.kind = "throw" THEN [kind |-> "error"]
    ELSE IF r.kind = "null" THEN [kind |-> "notFound"]
    ELSE [kind |-> "article",
          title |-> r.post.title,
          date |-> r.post.date,
          body |-> r.post.content]

(* --------------------------------------------------------------- actions *)

\* the concurrent callers (page renders)
Callers == {1, 2}

\* a caller that is not inside lib/posts
Idle ==
    [fn |-> "idle", pc |-> "idle", slug |-> <<>>, fileNames |-> <<>>,
     i |-> 0, allPostsData |-> <<>>, fileContents |-> <<>>, result |-> None,
     overlapped |-> FALSE]

Init ==
    /\ dirExists \in BOOLEAN
    /\ files = <<>>
    /\ op = [name |-> "init"]
    /\ ret = None
    /\ page = None
    /\ prev = None
    /\ stale = None
    /\ changed = FALSE
    /\ calls = [c \in Callers |-> Idle]

\* the listing page is rendered
Home ==
    \E fileNames \in Orders(DOMAIN files) :
        /\ op' = [name |-> "Home"]
        /\ ret' = getAllPosts(fileNames)
        /\ page' = HomePage(ret')
        /\ prev' = IF op = op' THEN ret ELSE None
    /\ stale' = None
    /\ changed' = (stale # None /\ stale.op = op' /\ stale.ret # ret')
    /\ calls' = calls
        /\ UNCHANGED <<dirExists, files>>

\* mutant of BlogPost: the file is opened with flag 'w+', which truncates it
BlogPostTruncates(slug) ==
    /\ op' = [name |-> "BlogPost", slug |-> slug]
    /\ ret' = getPostBySlug(slug)
    /\ page' = BlogPostPage(ret')
    /\ prev' = IF op = op' THEN ret ELSE None
    /\ stale' = None
    /\ changed' = (stale # None /\ stale.op = op' /\ stale.ret # ret')
    /\ calls' = calls
    /\ files' = [n \in DOMAIN files |->
                    IF n = WithMd(slug) /\ files[n].kind = "file"
                    THEN File(<<>>)
                    ELSE files[n]]
    /\ UNCHANGED dirExists

\* the detail page of slug is rendered
BlogPost(slug) ==
    /\ op' = [name |-> "BlogPost", slug |-> slug]
    /\ ret' = getPostBySlug(slug)
    /\ page' = BlogPostPage(ret')
    /\ prev' = IF op = op' THEN ret ELSE None
    /\ stale' = None
    /\ changed' = (stale # None /\ stale.op = op' /\ stale.ret # ret')
    /\ calls' = calls
    /\ UNCHANGED <<dirExists, files>>

Edited ==
    /\ op' = [name |-> "edit"]
    /\ ret' = None
    /\ page' = None
    /\ prev' = None
    /\ stale' = IF op.name \in {"Home", "BlogPost"}
                THEN [op |-> op, ret |-> ret]
                ELSE None
    /\ changed' = FALSE
    /\ calls' = calls

\* external edits of the backing store
MakePostsDir ==
    /\ ~dirExists
    /\ dirExists' = TRUE
    /\ files' = <<>>
    /\ Edited

RemovePostsDir ==
    /\ dirExists
    /\ dirExists' = FALSE
    /\ files' = <<>>
    /\ Edited

WriteFile(name, lines) ==
    /\ dirExists
    /\ IF name \in DOMAIN files THEN files[name].kind = "file"
       ELSE Cardinality(DOMAIN files) < MaxFiles
    /\ files' = [n \in DOMAIN files \cup {name} |->
                    IF n = name THEN File(lines) ELSE files[n]]
    /\ UNCHANGED dirExists
    /\ Edited

MakeSubdir(name) ==
    /\ dirExists
    /\ name \notin DOMAIN files
    /\ Cardinality(DOMAIN files) < MaxFiles
    /\ files' = [n \in DOMAIN files \cup {name} |->
                    IF n = name THEN Dir ELSE files[n]]
    /\ UNCHANGED dirExists
    /\ Edited

Remove(name) ==
    /\ name \in DOMAIN files
    /\ files' = [n \in DOMAIN files \ {name} |-> files[n]]
    /\ UNCHANGED dirExists
    /\ Edited

Next ==
    \/ Home
    \/ \E slug \in Slugs : BlogPost(slug)
    \/ MakePostsDir
    \/ RemovePostsDir
    \/ \E name \in FileNames, lines \in FileContents : WriteFile(name, lines)
    \/ \E name \in FileNames : MakeSubdir(name)
    \/ \E name \in FileNames : Remove(name)

Spec == Init /\ [][Next]_vars

(* ---------------------------------------------------- concurrent callers *)

\* Each caller runs lib/posts one file system call at a time; the steps of
\* different callers interleave.  The store is not edited meanwhile.

\* what an entry of the shared directory can be
SharedEntries ==
    {Dir} \cup {File(lines) :
                  lines \in {FullDoc(Date1), FullDoc(Date2), NoDateDoc, BadDoc}}

\* the directories the callers can share
SharedStores ==
    UNION {[S -> SharedEntries] :
              S \in {T \in SUBSET FileNames : Cardinality(T) <= MaxSharedFiles}}

InitConcurrent ==
    /\ dirExists \in BOOLEAN
    /\ files \in SharedStores
    /\ dirExists \/ files = <<>>
    /\ op = [name |-> "init"]
    /\ ret = None
    /\ page = None
    /\ prev = None
    /\ stale = None
    /\ changed = FALSE
    /\ calls = [c \in Callers |-> Idle]

InFlight(c) == calls[c].pc \notin {"idle", "done"}

\* caller c takes a step and becomes next: every other caller in flight has
\* now overlapped with it, and c with them
Step(c, next) ==
    /\ calls' = [d \in Callers |->
                    IF d = c
                    THEN [next EXCEPT !.overlapped =
                             @ \/ (next.pc # "idle"
                                   /\ \E e \in Callers \ {c} : InFlight(e))]
                    ELSE IF InFlight(d)
                         THEN [calls[d] EXCEPT !.overlapped = TRUE]
                         ELSE calls[d]]
    /\ UNCHANGED <<dirExists, files, op, ret, page, prev, stale, changed>>

\* caller c enters getAllPosts()
CallGetAllPosts(c) ==
    /\ calls[c].pc = "idle"
    /\ Step(c, [Idle EXCEPT !.fn = "getAllPosts", !.pc = "exists"])

\* caller c enters getPostBySlug(slug)
CallGetPostBySlug(c, slug) ==
    /\ calls[c].pc = "idle"
    /\ Step(c, [Idle EXCEPT !.fn = "getPostBySlug", !.pc = "exists",
                            !.slug = slug])

\* fs.existsSync and the early return
ExistsSync(c) ==
    /\ calls[c].pc = "exists"
    /\ IF calls[c].fn = "getAllPosts"
       THEN IF ~dirExists
            THEN Step(c, [calls[c] EXCEPT
                             !.result = [kind |-> "posts", posts |-> <<>>],
                             !.pc = "done"])
            ELSE Step(c, [calls[c] EXCEPT !.pc = "readdir"])
       ELSE IF ~(dirExists /\ WithMd(calls[c].slug) \in DOMAIN files)
            THEN Step(c, [calls[c] EXCEPT !.result = Null, !.pc = "done"])
            ELSE Step(c, [calls[c] EXCEPT
                             !.fileNames = <<WithMd(calls[c].slug)>>,
                             !.i = 1,
                             !.pc = "read"])

\* fs.readdirSync(postsDirectory)
ReaddirSync(c) ==
    /\ calls[c].pc = "readdir"
    /\ \E fileNames \in Orders(DOMAIN files) :
          Step(c, [calls[c] EXCEPT
                      !.fileNames = fileNames,
                      !.i = 1,
                      !.pc = IF fileNames = <<>> THEN "sort" ELSE "read"])

\* mutant of ReadFileSync: fileContents is a module-level variable, so what
\* one caller reads replaces what every other caller holds
ReadFileSyncShared(c) ==
    /\ calls[c].pc = "read"
    /\ LET entry == files[calls[c].fileNames[calls[c].i]]
       IN  IF entry.kind = "dir"
           THEN Step(c, [calls[c] EXCEPT
                            !.result = Threw("EISDIR"), !.pc = "done"])
           ELSE /\ calls' = [d \in Callers |->
                                IF d = c
                                THEN [calls[c] EXCEPT
                                         !.fileContents = entry.lines,
                                         !.pc = "parse",
                                         !.overlapped =
                                             @ \/ \E e \in Callers \ {c} :
                                                      InFlight(e)]
                                ELSE IF InFlight(d)
                                     THEN [calls[d] EXCEPT
                                              !.fileContents = entry.lines,
                                              !.overlapped = TRUE]
                                     ELSE calls[d]]
                /\ UNCHANGED <<dirExists, files, op, ret, page, prev, stale,
                               changed>>

\* fs.readFileSync(fullPath, 'utf8') into the local fileContents
ReadFileSync(c) ==
    /\ calls[c].pc = "read"
    /\ LET entry == files[calls[c].fileNames[calls[c].i]]
       IN  IF entry.kind = "dir"
           THEN Step(c, [calls[c] EXCEPT
                            !.result = Threw("EISDIR"), !.pc = "done"])
           ELSE Step(c, [calls[c] EXCEPT
                            !.fileContents = entry.lines, !.pc = "parse"])

\* matter(fileContents) and the object literal
Parse(c) ==
    /\ calls[c].pc = "parse"
    /\ LET m == Matter(calls[c].fileContents)
           me == calls[c]
       IN  IF m.threw
           THEN Step(c, [me EXCEPT
                            !.result = Threw("YAMLException"), !.pc = "done"])
           ELSE IF me.fn = "getPostBySlug"
           THEN Step(c, [me EXCEPT
                            !.result = [kind |-> "post",
                                        post |-> MakePost(me.slug, m)],
                            !.pc = "done"])
           ELSE Step(c, [me EXCEPT
                            !.allPostsData =
                                Append(@, MakePost(StripMd(me.fileNames[me.i]), m)),
                            !.i = @ + 1,
                            !.pc = IF me.i = Len(me.fileNames)
                                   THEN "sort" ELSE "read"])

\* allPostsData.sort(...) and the return of getAllPosts
Sort(c) ==
    /\ calls[c].pc = "sort"
    /\ Step(c, [calls[c] EXCEPT
                   !.result = [kind |-> "posts",
                               posts |-> ArraySort(calls[c].allPostsData)],
                   !.pc = "done"])

\* the caller has taken the result
Return(c) ==
    /\ calls[c].pc = "done"
    /\ Step(c, Idle)

NextConcurrent ==
    \E c \in Callers :
        \/ CallGetAllPosts(c)
        \/ \E slug \in Slugs : CallGetPostBySlug(c, slug)
        \/ ExistsSync(c)
        \/ ReaddirSync(c)
        \/ ReadFileSync(c)
        \/ Parse(c)
        \/ Sort(c)
        \/ Return(c)

SpecConcurrent == InitConcurrent /\ [][NextConcurrent]_vars

(* ---------------------------------------------------------------- claims *)

HelloMd == <<"h", "e", "l", "l", "o", ".", "m", "d">>

HelloSlug == <<"h", "e", "l", "l", "o">>

\* a valid content file: a regular file named <slug>.md whose front matter
\* parses and carries title and date
ValidFile(name) ==
    /\ EndsWithMd(name)
    /\ files[name].kind = "file"
    /\ ~Matter(files[name].lines).threw
    /\ {"title", "date"} \subseteq DOMAIN Matter(files[name].lines).data

AllValid == dirExists /\ \A name \in DOMAIN files : ValidFile(name)

Listed == op.name = "Home" /\ ret.kind = "posts"

\* C1: when the directory holds N valid content files and nothing else
\* (N = 0 included), getAllPosts returns exactly N posts, one per file, and
\* the slug of each is the file's name without the '.md' extension.
C1_OnePostPerValidFile ==
    (op.name = "Home" /\ AllValid) =>
        /\ ret.kind = "posts"
        /\ Len(ret.posts) = Cardinality(DOMAIN files)
        /\ \A name \in DOMAIN files :
              Cardinality({i \in 1..Len(ret.posts) :
                              ret.posts[i].slug \o MdExt = name}) = 1

C1_Witness ==
    /\ op.name = "Home"
    /\ AllValid
    /\ Cardinality(DOMAIN files) = 2
    /\ ret.kind = "posts"
    /\ Len(ret.posts) = 2

\* C2: the posts getAllPosts returns are in descending order of their date
\* strings: a post that comes before another never has the smaller date.
C2_SortedByDateDescending ==
    Listed =>
        \A i, j \in 1..Len(ret.posts) :
            (i < j /\ ret.posts[i].date.t = "string"
                   /\ ret.posts[j].date.t = "string")
                => ~StrLess(ret.posts[i].date.v, ret.posts[j].date.v)

\* C3: when the posts directory does not exist getAllPosts returns the empty
\* sequence and raises nothing.
C3_MissingDirectoryIsEmpty ==
    (op.name = "Home" /\ ~dirExists) =>
        ret = [kind |-> "posts", posts |-> <<>>]

C3_Witness == op.name = "Home" /\ ~dirExists /\ ret.kind = "posts"

\* C4: getPostBySlug(s) returns null, without raising, whenever the posts
\* directory holds no file s.md, and returns a Post whenever it holds that
\* file.
C4_AbsentIsNullPresentIsPost ==
    op.name = "BlogPost" =>
        LET name == op.slug \o MdExt
            isFile == dirExists /\ name \in DOMAIN files
                                /\ files[name].kind = "file"
        IN  /\ ~isFile => ret = Null
            /\ isFile => ret.kind = "post"

C6_Expected(slug, d) ==
    [slug |-> slug,
     title |-> Str(Hello),
     date |-> Str(d),
     excerpt |-> Str(Hi),
     content |-> <<Text(World)>>]

C6_Holds(slug, d) ==
    dirExists /\ slug \o MdExt \in DOMAIN files
              /\ files[slug \o MdExt] = File(FullDoc(d))

C6_FileToRecord ==
    \A slug \in Slugs, d \in Dates :
        C6_Holds(slug, d) =>
            /\ (op.name = "BlogPost" /\ op.slug = slug) =>
                   ret = [kind |-> "post", post |-> C6_Expected(slug, d)]
            /\ Listed =>
                   \E i \in 1..Len(ret.posts) :
                       ret.posts[i] = C6_Expected(slug, d)

C6_Witness ==
    /\ C6_Holds(HelloSlug, Date5)
    /\ op = [name |-> "BlogPost", slug |-> HelloSlug]
    /\ ret.kind = "post"
    /\ ret.post.content = <<Text(World)>>

\* C7: no two posts returned by getAllPosts have the same slug.
C7_SlugsUnique ==
    Listed =>
        \A i, j \in 1..Len(ret.posts) :
            i # j => ret.posts[i].slug # ret.posts[j].slug

\* C8: every Post returned by getAllPosts or getPostBySlug has a title and
\* a date that are strings.
C8_TitleAndDatePresent ==
    /\ Listed =>
          \A i \in 1..Len(ret.posts) :
              /\ ret.posts[i].title.t = "string"
              /\ ret.posts[i].date.t = "string"
    /\ (op.name = "BlogPost" /\ ret.kind = "post") =>
          /\ ret.post.title.t = "string"
          /\ ret.post.date.t = "string"

\* C9: for every post p getAllPosts returns, getPostBySlug(p.slug) on the
\* same store returns a Post equal to p.
C9_ListAndLookupAgree ==
    Listed =>
        \A i \in 1..Len(ret.posts) :
            getPostBySlug(ret.posts[i].slug)
                = [kind |-> "post", post |-> ret.posts[i]]

\* C10: the detail page is the not-found presentation exactly when
\* getPostBySlug returned null; for a Post it is the article with that
\* post's title, date and body.
C10_NotFoundIffNull ==
    op.name = "BlogPost" =>
        /\ page.kind = "notFound" <=> ret = Null
        /\ ret.kind = "post" =>
              page = [kind |-> "article",
                      title |-> ret.post.title,
                      date |-> ret.post.date,
                      body |-> ret.post.content]

C10_Witness ==
    /\ op.name = "BlogPost"
    /\ ret.kind = "post"
    /\ ret.post.title = Undefined
    /\ page.kind = "article"

\* C11: whenever the posts directory exists, whatever entries it holds,
\* getAllPosts returns a sequence of posts and raises nothing.
C11_ListSurfacesNoError ==
    (op.name = "Home" /\ dirExists) => ret.kind = "posts"

\* the post was built from the entry as it is in the store now: its content
\* is a tail of the file's lines and each metadata field is the value of a
\* front matter line of the file, or undefined when the file has no such line
FromEntry(post, name) ==
    /\ files[name].kind = "file"
    /\ LET lines == files[name].lines
       IN  /\ \E k \in 0..Len(lines) :
                 post.content = SubSeq(lines, k + 1, Len(lines))
           /\ \A key \in {"title", "date", "excerpt"} :
                 IF post[key] = Undefined
                 THEN \A i \in 1..Len(lines) :
                         lines[i].kind = "kv" => lines[i].key # key
                 ELSE \E i \in 1..Len(lines) :
                         lines[i] = KV(key, post[key].v)

\* the exception is one the entry as it is now raises
RaisedBy(r, name) ==
    \/ r.error = "EISDIR" /\ files[name].kind = "dir"
    \/ /\ r.error = "YAMLException"
       /\ files[name].kind = "file"
       /\ \E i \in 1..Len(files[name].lines) : files[name].lines[i] = Bad

C13_CallsLeaveTheStoreUnchanged ==
    [][op'.name \in {"Home", "BlogPost"} =>
          (files' = files /\ dirExists' = dirExists)]_vars

C13_Witness ==
    /\ op.name \in {"Home", "BlogPost"}
    /\ prev # None
    /\ DOMAIN files # {}

====
